---- MODULE Spec2Model ----
(***************************************************************************)
(* Aggregation and ranking engine of spotify-history (data_processing.py,  *)
(* analysis.py).                                                           *)
(*                                                                         *)
(* An uploaded record is [artistName, trackName, albumName, msPlayed,      *)
(* endTime]; an event table (pandas DataFrame) is a bag of rows that carry *)
(* these columns and the ones load_and_process_data derives (date, dow,    *)
(* week, year).  A timestamp is a number of hours and a date a number of   *)
(* days, both counted from Monday 2018-01-01.                              *)
(* No modelled operation reads a row's position: groupby orders groups by  *)
(* key, the filters keep or drop whole rows.  minutesPlayed is             *)
(* msPlayed / 60000; the model keeps it in milliseconds (minutes times     *)
(* MsPerMinute), so sums stay integers and "minutes > m" is                *)
(* "ms > m * MsPerMinute".                                                 *)
(*                                                                         *)
(* sort_values(ascending=False) uses the default kind "quicksort", which   *)
(* is not stable: the operators that sort return the SET of orders the     *)
(* sort can produce (every arrangement that is descending in the sort      *)
(* key), and the actions pick one.                                         *)
(***************************************************************************)
EXTENDS Integers, Sequences, FiniteSets, Bags, TLC

\* ---------------------------------------------------------------- bounds
MaxEvents == 3

\* ------------------------------------------------------ program constants
MsPerMinute == 60000
\* timedelta(hours=16), added to every endTime before the columns are derived
OffsetHours == 16
DefaultMinMsPlayed == 10000
DefaultMinMinutesPlayedArtist == 5

\* The selector entry that stands for "no single artist".
AllArtists == "All Artists"

\* A second sentinel name the specification speaks of; the code never tests it.
AllEntities == "All Entities"

\* A missing value (NaN/None in a column), and Python's None as a result.
NaN == "NaN"
None == <<>>
Some(x) == <<x>>

VARIABLES
    listening_history,          \* bag of rows: the concatenated uploaded records
    all_data,                   \* bag of rows: the table load_and_process_data returned
    loaded,                     \* TRUE once load_and_process_data has returned
    min_ms_played,              \* the thresholds of the last load
    min_minutes_played_artist,
    out,                        \* the last query and what it returned
    history_files,              \* st.session_state["history_files"]: the uploaded files
    cache,                      \* the st.cache_data store of load_and_process_data
    page,                       \* how far the page run came: running, or stopped by st.stop()
    ran_body,                   \* the body of load_and_process_data ran in this page run
    files_read,                 \* the names of the files that run read, in order
    since_clear                 \* the tables of the loads made since the last clear, by their files

upload_vars == <<history_files, cache, page, ran_body, files_read, since_clear>>

vars == <<listening_history, all_data, loaded, min_ms_played,
          min_minutes_played_artist, out, upload_vars>>

\* One record of an uploaded file.
Record(a, t, al, ms, endTime) ==
    [artistName |-> a, trackName |-> t, albumName |-> al, msPlayed |-> ms,
     endTime |-> endTime]

\* ---------------------------------------------------------------- calendar
\* datetime.date as a day number, day 0 = Monday 2018-01-01.
IsLeap(y) == y % 4 = 0 /\ (y % 100 # 0 \/ y % 400 = 0)

DaysInYear(y) == IF IsLeap(y) THEN 366 ELSE 365

\* date(y, 1, 1)
RECURSIVE Jan1(_)
Jan1(y) ==
    IF y = 2018 THEN 0
    ELSE IF y > 2018 THEN Jan1(y - 1) + DaysInYear(y - 1)
    ELSE Jan1(y + 1) - DaysInYear(y)

\* date.weekday(): Monday is 0.
Weekday(d) == d % 7

\* date.year
RECURSIVE YearFrom(_, _)
YearFrom(d, y) ==
    IF d < Jan1(y) THEN YearFrom(d, y - 1)
    ELSE IF d >= Jan1(y + 1) THEN YearFrom(d, y + 1)
    ELSE y

YearOf(d) == YearFrom(d, 2018)

\* The Monday of ISO week 1 of year y: the week that holds the year's first
\* Thursday.
IsoWeek1Monday(y) ==
    LET firstweekday == Weekday(Jan1(y))
        week1monday == Jan1(y) - firstweekday
    IN  IF firstweekday > 3 THEN week1monday + 7 ELSE week1monday

\* isocalendar(): ISO year, ISO week (1..53) and ISO weekday (1..7) of day d.
IsoCalendar(d) ==
    LET y == YearOf(d)
        w == (d - IsoWeek1Monday(y)) \div 7
    IN  IF w < 0
        THEN [year |-> y - 1,
              week |-> (d - IsoWeek1Monday(y - 1)) \div 7 + 1,
              weekday |-> Weekday(d) + 1]
        ELSE IF w >= 52 /\ d >= IsoWeek1Monday(y + 1)
        THEN [year |-> y + 1, week |-> 1, weekday |-> Weekday(d) + 1]
        ELSE [year |-> y, week |-> w + 1, weekday |-> Weekday(d) + 1]

\* A timestamp: hour h of day d; and the day of a timestamp.
At(d, h) == d * 24 + h

DateOf(ts) == ts \div 24

\* calendar.day_name
day_name ==
    <<"Monday", "Tuesday", "Wednesday", "Thursday", "Friday", "Saturday", "Sunday">>

\* ------------------------------------------------------------ bag helpers
\* df[mask]: the rows S of t, each with its multiplicity.
Where(t, S) == [e \in S |-> t[e]]

RECURSIVE SumFn(_, _)
SumFn(f, S) ==
    IF S = {} THEN 0
    ELSE LET e == CHOOSE x \in S : TRUE
         IN  f[e] + SumFn(f, S \ {e})

\* Sum of msPlayed over the rows S of t, every row with its multiplicity.
MsOver(t, S) == SumFn([e \in S |-> t[e] * e.msPlayed], S)

\* Number of rows of t among S.
CountOver(t, S) == SumFn([e \in S |-> t[e]], S)

\* df["minutesPlayed"].sum(), in milliseconds.
TotalMs(t) == MsOver(t, DOMAIN t)

\* len(df)
NRows(t) == CountOver(t, DOMAIN t)

RECURSIVE SeqSum(_)
SeqSum(s) == IF s = <<>> THEN 0 ELSE Head(s) + SeqSum(Tail(s))

\* ------------------------------------------------------------- groupby
\* The key columns of the groupings; a group key is the tuple of the row's
\* values in these columns.
ArtistCols == <<"artistName">>
AlbumCols == <<"artistName", "albumName">>
TrackCols == <<"artistName", "trackName">>
TrackFirstCols == <<"trackName", "artistName">>
AlbumFirstCols == <<"albumName", "artistName">>

KeyOf(cols, e) == [i \in DOMAIN cols |-> e[cols[i]]]

\* groupby(...) has dropna=True: a row with a missing value in a key column
\* belongs to no group.
HasNaN(k) == \E i \in DOMAIN k : k[i] = NaN

GroupKeys(t, cols) ==
    {KeyOf(cols, e) : e \in {x \in DOMAIN t : ~HasNaN(KeyOf(cols, x))}}

GroupRows(t, cols, k) == {e \in DOMAIN t : KeyOf(cols, e) = k}

\* .sum() of minutesPlayed of one group, in milliseconds.
GroupMs(t, cols, k) == MsOver(t, GroupRows(t, cols, k))

\* .count() of one group (the counted columns are never missing).
GroupCount(t, cols, k) == CountOver(t, GroupRows(t, cols, k))

\* ---------------------------------------------------------------- sorting
\* sort_values(ascending=False) of the keys S by their values v (a function
\* on S): every order that is descending in v, built from a key of greatest
\* value followed by such an order of the rest.  Equal values come out in an
\* order the sort does not fix.
RECURSIVE SortValuesDesc(_, _)
SortValuesDesc(S, v) ==
    IF S = {} THEN {<<>>}
    ELSE UNION {{<<k>> \o rest : rest \in SortValuesDesc(S \ {k}, v)} :
                   k \in {x \in S : \A y \in S : v[x] >= v[y]}}

\* sort_values([a, b], ascending=False): every order of the keys S that is
\* descending in v and, among equal v, descending in w.
RECURSIVE SortValuesDesc2(_, _, _)
SortValuesDesc2(S, v, w) ==
    IF S = {} THEN {<<>>}
    ELSE UNION {{<<k>> \o rest : rest \in SortValuesDesc2(S \ {k}, v, w)} :
                   k \in {x \in S : \A y \in S :
                              v[x] > v[y] \/ (v[x] = v[y] /\ w[x] >= w[y])}}

\* index.get_loc(key), 0-based.
GetLoc(index, key) == (CHOOSE i \in DOMAIN index : index[i] = key) - 1

InIndex(index, key) == \E i \in DOMAIN index : index[i] = key

\* ------------------------------------------------------- data_processing
\* all_data[all_data["msPlayed"] > min_ms_played]
EventFilter(t, minMs) == Where(t, {e \in DOMAIN t : e.msPlayed > minMs})

ArtistFilter_inclusive(t, minMinutes) ==
    Where(t, {e \in DOMAIN t :
                 \E k \in GroupKeys(t, ArtistCols) :
                     /\ KeyOf(ArtistCols, e) = k
                     /\ GroupMs(t, ArtistCols, k) >= minMinutes * MsPerMinute})

\* all_data.groupby("artistName").filter(lambda x: x["minutesPlayed"].sum() > m)
ArtistFilter(t, minMinutes) ==
    Where(t, {e \in DOMAIN t :
                 \E k \in GroupKeys(t, ArtistCols) :
                     /\ KeyOf(ArtistCols, e) = k
                     /\ GroupMs(t, ArtistCols, k) > minMinutes * MsPerMinute})

ArtistFilterFirst(t, minMs, minMinutes) ==
    EventFilter(ArtistFilter(t, minMinutes), minMs)

\* "Add features": endTime is replaced by endTime + timedelta(hours=16), and
\* date, dow, week and year are those of the replaced endTime.
AddFeaturesTo(e, offset) ==
    LET endTime == e.endTime + offset
        date == DateOf(endTime)
    IN  [artistName |-> e.artistName, trackName |-> e.trackName,
         albumName |-> e.albumName, msPlayed |-> e.msPlayed,
         endTime |-> endTime,
         date |-> date,
         dow |-> Weekday(date),
         week |-> IsoCalendar(date).week,
         year |-> IsoCalendar(date).year]

AddFeatures(e) == AddFeaturesTo(e, OffsetHours)

\* The table of the concatenated records with the derived columns; distinct
\* records give distinct rows.
WithFeatures(t) ==
    [r \in {AddFeatures(e) : e \in DOMAIN t} |->
        t[CHOOSE e \in DOMAIN t : AddFeatures(e) = r]]

\* The two filters of load_and_process_data, in the order the code runs them.
ApplyFilters(t, minMs, minMinutes) ==
    ArtistFilter(EventFilter(t, minMs), minMinutes)

\* ---------------------------------------------------------------- analysis
YearDf_unfiltered(df, year) == df

\* df[df["year"] == year]
YearDf(df, year) == Where(df, {e \in DOMAIN df : e.year = year})

\* groupby(Key)["minutesPlayed"].sum().sort_values(ascending=False): a Series,
\* its index the ordered group keys and its values their totals.
SortedMinutes(df, cols) ==
    LET minutes == [k \in GroupKeys(df, cols) |-> GroupMs(df, cols, k)]
    IN  {[index |-> s, values |-> [i \in DOMAIN s |-> minutes[s[i]]]] :
            s \in SortValuesDesc(DOMAIN minutes, minutes)}

aggregate_artist_minutes(df) == SortedMinutes(df, ArtistCols)

aggregate_album_minutes_by_title(df) ==
    LET titles == {e.albumName : e \in DOMAIN df} \ {NaN}
        first(t) == CHOOSE a \in {e.artistName : e \in {x \in DOMAIN df : x.albumName = t}} : TRUE
        keys == {<<first(t), t>> : t \in titles}
        minutes == [k \in keys |-> MsOver(df, {e \in DOMAIN df : e.albumName = k[2]})]
    IN  {[index |-> s, values |-> [i \in DOMAIN s |-> minutes[s[i]]]] :
            s \in SortValuesDesc(keys, minutes)}

aggregate_album_minutes(df) == SortedMinutes(df, AlbumCols)

aggregate_track_minutes(df) == SortedMinutes(df, TrackCols)

RankIn_zero_based(minutes, key) ==
    IF ~InIndex(minutes.index, key) THEN None
    ELSE Some(GetLoc(minutes.index, key))

RankIn_absent_last(minutes, key) ==
    IF ~InIndex(minutes.index, key) THEN Some(Len(minutes.index) + 1)
    ELSE Some(GetLoc(minutes.index, key) + 1)

\* "key not in minutes.index -> None, else minutes.index.get_loc(key) + 1"
RankIn(minutes, key) ==
    IF ~InIndex(minutes.index, key) THEN None
    ELSE Some(GetLoc(minutes.index, key) + 1)

get_artist_rank_unguarded(df, artist) ==
    {RankIn(minutes, <<artist>>) : minutes \in aggregate_artist_minutes(df)}

get_artist_rank(df, artist) ==
    IF artist = AllArtists THEN {None}
    ELSE {RankIn(minutes, <<artist>>) : minutes \in aggregate_artist_minutes(df)}

get_yearly_artist_rank(df, artist, year) ==
    IF artist = AllArtists THEN {None}
    ELSE get_artist_rank(YearDf(df, year), artist)

get_album_rank(df, artist, album) ==
    {RankIn(minutes, <<artist, album>>) : minutes \in aggregate_album_minutes(df)}

get_yearly_album_rank(df, artist, album, year) ==
    get_album_rank(YearDf(df, year), artist, album)

get_track_rank(df, artist, track) ==
    {RankIn(minutes, <<artist, track>>) : minutes \in aggregate_track_minutes(df)}

\* d["hours"].rank(ascending=False) of one row of the merged table: the
\* default method is "average", so the rows that share a value share the mean
\* of the positions they occupy.  Twice that rank, to stay in the integers:
\* 2 * (rows with more hours) + (rows with the same hours) + 1.
RankX2(df, e) ==
    LET h(x) == GroupMs(df, ArtistCols, KeyOf(ArtistCols, x))
        more == {x \in DOMAIN df : h(x) > h(e)}
        same == {x \in DOMAIN df : h(x) = h(e)}
    IN  2 * CountOver(df, more) + CountOver(df, same) + 1

\* compute_top_artists: "hours" is the sorted Series (kept in milliseconds),
\* "order" its index, "df" the input rows, each with its artist's hours and
\* the rank of that value among all rows.
compute_top_artists(df) ==
    {[hours |-> m,
      order |-> [i \in DOMAIN m.index |-> m.index[i][1]],
      df    |-> [r \in {[row |-> e,
                         hours |-> GroupMs(df, ArtistCols, KeyOf(ArtistCols, e)),
                         rank_x2 |-> RankX2(df, e)] : e \in DOMAIN df}
                   |-> df[r.row]]] :
        m \in SortedMinutes(df, ArtistCols)}

\* The separator of an album's display label (an em dash between spaces);
\* the label albumName + Dash + artistName is kept as the triple of its parts.
Dash == " -- "

\* compute_top_albums: one row per (artist, album) in the order of
\* aggregate_album_minutes, rank = range(1, len + 1).
compute_top_albums(df) ==
    {LET albums_df == [i \in DOMAIN m.index |->
                          [artistName |-> m.index[i][1],
                           albumName |-> m.index[i][2],
                           hours |-> m.values[i],
                           rank |-> i,
                           album_display |-> <<m.index[i][2], Dash, m.index[i][1]>>]]
     IN  [df |-> albums_df,
          order |-> [i \in DOMAIN albums_df |-> albums_df[i].album_display]] :
        m \in aggregate_album_minutes(df)}

Min(a, b) == IF a <= b THEN a ELSE b

Head_n_all(s, n) == s

\* songs_df.head(top_n) and order[:top_n], top_n >= 0
Head_n(s, n) == SubSeq(s, 1, Min(n, Len(s)))

SongsByMinutes(df, cols) ==
    LET minutes == [k \in GroupKeys(df, cols) |-> GroupMs(df, cols, k)]
    IN  SortValuesDesc(DOMAIN minutes, minutes)

\* The groups ordered by .sort_values("Listens", ascending=False).
SongsByListens(df, cols) ==
    LET Listens == [k \in GroupKeys(df, cols) |-> GroupCount(df, cols, k)]
    IN  SortValuesDesc(DOMAIN Listens, Listens)

\* compute_top_songs: one row per (artist, track), ordered by listens,
\* rank = range(1, len + 1); "order" is the first top_n track names.
compute_top_songs(df, top_n) ==
    {LET songs_df == [i \in DOMAIN s |->
                         [artistName |-> s[i][1],
                          trackName |-> s[i][2],
                          Listens |-> GroupCount(df, TrackCols, s[i]),
                          rank |-> i]]
     IN  [df |-> songs_df,
          order |-> Head_n([i \in DOMAIN songs_df |-> songs_df[i].trackName], top_n),
          top_n |-> top_n] :
        s \in SongsByListens(df, TrackCols)}

\* compute_lifetime_top_tracks: one row per (track, artist) ordered by
\* listens; the artistName column is dropped, trackName is the index.
compute_lifetime_top_tracks(df) ==
    {[i \in DOMAIN s |->
         [trackName |-> s[i][1],
          Listens |-> GroupCount(df, TrackFirstCols, s[i]),
          Total_Minutes |-> GroupMs(df, TrackFirstCols, s[i])]] :
        s \in SongsByListens(df, TrackFirstCols)}

\* get_artist_order: the index of the artist aggregate as a list.
get_artist_order(df) ==
    {[i \in DOMAIN minutes.index |-> minutes.index[i][1]] :
        minutes \in aggregate_artist_minutes(df)}

\* get_album_order: the label "album - artist" of every (artist, album) of
\* the album aggregate, in its order.
get_album_order(df) ==
    {[i \in DOMAIN minutes.index |->
         <<minutes.index[i][2], Dash, minutes.index[i][1]>>] :
        minutes \in aggregate_album_minutes(df)}

get_artist_data_all(df, artist) == df

\* get_artist_data: the whole table for "All Artists", else the artist's rows.
get_artist_data(df, artist) ==
    IF artist = AllArtists THEN df
    ELSE Where(df, {e \in DOMAIN df : e.artistName = artist})

\* What a call that raises leaves instead of a result.
Raised(error) == [raised |-> error]

\* Series.idxmax(): the first label with the greatest value, the labels in
\* ascending order (groupby sorts them); it raises ValueError on an empty
\* Series.
idxmax_raises(series) == DOMAIN series = {}

idxmax(series) ==
    LET top == {k \in DOMAIN series : \A j \in DOMAIN series : series[k] >= series[j]}
    IN  CHOOSE k \in top : \A j \in top : k <= j

\* df.groupby("year")["minutesPlayed"].sum()
MinutesByYear(df) ==
    [y \in {e.year : e \in DOMAIN df} |-> MsOver(df, {e \in DOMAIN df : e.year = y})]

\* The stats dict: "hours" (held in milliseconds), "unique_tracks" and
\* "most_listened_year".
StatsDict(df, most_listened_year) ==
    [hours |-> TotalMs(df),
     unique_tracks |-> Cardinality({e.trackName : e \in DOMAIN df} \ {NaN}),
     most_listened_year |-> most_listened_year]

compute_artist_stats_unguarded(df) ==
    IF idxmax_raises(MinutesByYear(df)) THEN Raised("ValueError")
    ELSE StatsDict(df, Some(idxmax(MinutesByYear(df))))

\* compute_artist_stats: most_listened_year is idxmax of the minutes by
\* year "if ... not df.empty else None" (the table always has a year
\* column); a raise of idxmax is a raise of the call.
compute_artist_stats(df) ==
    IF df # EmptyBag
    THEN IF idxmax_raises(MinutesByYear(df)) THEN Raised("ValueError")
         ELSE StatsDict(df, Some(idxmax(MinutesByYear(df))))
    ELSE StatsDict(df, None)

\* compute_yearly_artist_stats: the stats of the rows of the year, of all
\* artists for "All Artists", else of the one artist.
compute_yearly_artist_stats(df, artist, year) ==
    compute_artist_stats(get_artist_data(YearDf(df, year), artist))

\* compute_lifetime_top_albums: one row per (album, artist), sorted by
\* Total_Minutes descending; artistName dropped, albumName the index.
compute_lifetime_top_albums(df) ==
    LET keys == GroupKeys(df, AlbumFirstCols)
        Total_Minutes == [k \in keys |-> GroupMs(df, AlbumFirstCols, k)]
    IN  {[i \in DOMAIN s |->
             [albumName |-> s[i][1], Total_Minutes |-> Total_Minutes[s[i]]]] :
            s \in SortValuesDesc(keys, Total_Minutes)}

\* compute_yearly_album_leaderboard: the same table, of the rows it is given.
compute_yearly_album_leaderboard(df) ==
    LET keys == GroupKeys(df, AlbumFirstCols)
        Total_Minutes == [k \in keys |-> GroupMs(df, AlbumFirstCols, k)]
    IN  {[i \in DOMAIN s |->
             [albumName |-> s[i][1], Total_Minutes |-> Total_Minutes[s[i]]]] :
            s \in SortValuesDesc(keys, Total_Minutes)}

\* compute_yearly_track_leaderboard: one row per (track, artist), sorted by
\* ["Total_Minutes", "Listens"] descending; artistName dropped, trackName the
\* index.
compute_yearly_track_leaderboard(df) ==
    LET keys == GroupKeys(df, TrackFirstCols)
        Listens == [k \in keys |-> GroupCount(df, TrackFirstCols, k)]
        Total_Minutes == [k \in keys |-> GroupMs(df, TrackFirstCols, k)]
    IN  {[i \in DOMAIN s |->
             [trackName |-> s[i][1], Listens |-> Listens[s[i]],
              Total_Minutes |-> Total_Minutes[s[i]]]] :
            s \in SortValuesDesc2(keys, Total_Minutes, Listens)}

\* The inline leaderboard of spotify_history.py: the same groups, sorted by
\* "Total Minutes" descending and then, as a second sort of the whole table,
\* by "Listens" descending; the Artist column stays, Track is the index.
track_leaderboard_yearly(df) ==
    LET keys == GroupKeys(df, TrackFirstCols)
        Listens == [k \in keys |-> GroupCount(df, TrackFirstCols, k)]
        Total_Minutes == [k \in keys |-> GroupMs(df, TrackFirstCols, k)]
    IN  UNION {{[i \in DOMAIN s |->
                   [Track |-> s[i][1], Artist |-> s[i][2],
                    Total_Minutes |-> Total_Minutes[s[i]],
                    Listens |-> Listens[s[i]]]] :
                  s \in SortValuesDesc({byMinutes[i] : i \in DOMAIN byMinutes}, Listens)} :
               byMinutes \in SortValuesDesc(keys, Total_Minutes)}

\* get_track_order: the track names of aggregate_track_minutes in its order,
\* all of them when top_n is None, else order[:top_n].  "minutes" is the
\* function's local aggregate, kept beside the list it returns.
get_track_order(df, top_n) ==
    {LET order == [i \in DOMAIN minutes.index |-> minutes.index[i][2]]
     IN  [minutes |-> minutes,
          order |-> IF top_n = None THEN order ELSE Head_n(order, top_n[1])] :
        minutes \in aggregate_track_minutes(df)}

\* load_and_process_data: the records with their derived columns that pass
\* the per-event filter and then the per-artist filter.
load_and_process_data(history, minMs, minMinutes) ==
    ApplyFilters(WithFeatures(history), minMs, minMinutes)

\* An uploaded file: its name, whether file.read().decode() and json.loads
\* succeed on it, and the records it holds.
File(name, ok, records) == [name |-> name, ok |-> ok, records |-> records]

\* The position of the first file of the batch that cannot be read or
\* parsed, 0 when every file can.
FirstBad(files) ==
    IF \A i \in DOMAIN files : files[i].ok THEN 0
    ELSE CHOOSE i \in DOMAIN files :
             ~files[i].ok /\ \A j \in 1..(i - 1) : files[j].ok

\* pd.concat(listening_history)
RECURSIVE Concat(_)
Concat(files) ==
    IF files = <<>> THEN EmptyBag ELSE Head(files).records (+) Concat(Tail(files))

Names(files) == [i \in DOMAIN files |-> files[i].name]

\* The files the loop of load_and_process_data reads: all of them, or those
\* up to the first one that fails (st.error, st.stop()).
FilesRead(files) ==
    IF FirstBad(files) = 0 THEN files ELSE SubSeq(files, 1, FirstBad(files))

FilesConcatenated_skipping(files) ==
    Some(SelectSeq(files, LAMBDA f : f.ok))

\* The files whose records reach pd.concat: none when a file failed, since
\* st.stop() ends the run inside the loop.
FilesConcatenated(files) ==
    IF FirstBad(files) = 0 THEN Some(files) ELSE None

CacheCleared_kept(c) == c

\* st.cache_data.clear()
CacheCleared(c) == <<>>

\* ------------------------------------------------------------------ charts
\* build_date_from_pieces: strptime of "year-week-dayname" with "%Y-%W-%A".
\* %W counts the weeks of the calendar year from its first Monday (the days
\* before it are week 0); the date is day "julian" of the year.
build_date_from_pieces(row) ==
    LET first_weekday == Weekday(Jan1(row.year))
        week_0_length == (7 - first_weekday) % 7
        day_of_week == (CHOOSE i \in DOMAIN day_name : day_name[i] = row.day_of_week_str) - 1
        julian == IF row.week = 0
                  THEN 1 + day_of_week - first_weekday
                  ELSE 1 + week_0_length + 7 * (row.week - 1) + day_of_week
    IN  Jan1(row.year) + julian - 1

\* A number of minutes that need not be whole: min minutes and ms milliseconds.
Minutes(ms) == [min |-> ms \div MsPerMinute, ms |-> ms % MsPerMinute]

\* m <= b, b a whole number of minutes
MinutesLeq(m, b) == m.min < b \/ (m.min = b /\ m.ms = 0)

bucket_labels == <<"0 min", "1-5 min", "5-15 min", "15-60 min", "60+ min">>

bins == <<-1, 1, 5, 15, 60, 60 * 60 * 24>>

\* pd.cut(x, bins, labels): the label of the interval (bins[i], bins[i+1]]
\* that holds x, NaN for an x in none of them.
cut(x, b, labels) ==
    IF \E i \in DOMAIN labels : ~MinutesLeq(x, b[i]) /\ MinutesLeq(x, b[i + 1])
    THEN labels[CHOOSE i \in DOMAIN labels :
                    ~MinutesLeq(x, b[i]) /\ MinutesLeq(x, b[i + 1])]
    ELSE NaN

min_bucket(x) == cut(x, bins, bucket_labels)

\* categories=list(range(0, 53))
week_categories == 0..52

\* build_heatmap, the table the chart is drawn from.  The rows are grouped
\* by (week, day_of_week_str, year), week and day name categorical: the
\* groups are all weeks of the categories times all seven day names times
\* the years of the rows, an unobserved group with the sum 0; a row whose
\* week is not among the categories has the week NaN and is in no group.
\* A group takes
\* the date of its rows (left merge); a group without rows has no date and
\* gets it from build_date_from_pieces.
build_heatmap(heatmap_data) ==
    LET week(e) == IsoCalendar(DateOf(e.endTime)).week
        rows(w, d, y) ==
            {e \in DOMAIN heatmap_data :
                /\ week(e) \in week_categories
                /\ week(e) = w /\ day_name[e.dow + 1] = d /\ e.year = y}
        heatmap_agg ==
            {[week |-> w, day_of_week_str |-> day_name[i], year |-> y,
              minutesPlayed |-> MsOver(heatmap_data, rows(w, day_name[i], y))] :
                w \in week_categories, i \in DOMAIN day_name,
                y \in {e.year : e \in DOMAIN heatmap_data}}
        dates(c) == {e.date : e \in rows(c.week, c.day_of_week_str, c.year)}
        cell(c, date) ==
            [week |-> c.week, day_of_week_str |-> c.day_of_week_str, year |-> c.year,
             minutesPlayed |-> c.minutesPlayed,
             min_bucket |-> min_bucket(Minutes(c.minutesPlayed)),
             date |-> date]
        not_missing_dates ==
            UNION {{cell(c, date) : date \in dates(c)} : c \in heatmap_agg}
        missing_dates ==
            {cell(c, build_date_from_pieces(c)) : c \in {x \in heatmap_agg : dates(x) = {}}}
    IN  missing_dates \cup not_missing_dates

\* ------------------------------------------------------------- page flow
\* st.selectbox(label, options): the option the user has chosen, None when
\* there is no option.
selectbox(options) ==
    IF options = <<>> THEN {None}
    ELSE {Some(options[i]) : i \in DOMAIN options}

\* sorted(values, reverse=True)
RECURSIVE sorted_reverse(_)
sorted_reverse(S) ==
    IF S = {} THEN <<>>
    ELSE LET m == CHOOSE x \in S : \A y \in S : x >= y
         IN  <<m>> \o sorted_reverse(S \ {m})

\* ["All Artists"] + top_artists["order"]
artist_options(order) == <<AllArtists>> \o order

\* sorted(artists["year"].unique(), reverse=True)
sorted_years_reversed(artists) == sorted_reverse({e.year : e \in DOMAIN artists})

\* get_yearly_artist_rank with the value of the year selector, which is None
\* when the selector has no option: no row has that year.
yearly_rank_of(df, artist, year_select) ==
    IF year_select = None THEN {None}
    ELSE get_yearly_artist_rank(df, artist, year_select[1])

\* The legacy page's yearly rank: minutesPlayed.rank(ascending=False) over
\* the artists of the year, method "average", doubled to stay in the
\* integers.
yearly_rank_x2(df, artist, year) ==
    LET d == YearDf(df, year)
        h(a) == GroupMs(d, ArtistCols, <<a>>)
        names == {k[1] : k \in GroupKeys(d, ArtistCols)}
        more == {a \in names : h(a) > h(artist)}
        same == {a \in names : h(a) = h(artist)}
    IN  2 * Cardinality(more) + Cardinality(same) + 1

\* f"{x:.0f}" of x = x2 / 2: a half is rounded to the even neighbour.
format_0f(x2) ==
    IF x2 % 2 = 0 THEN x2 \div 2
    ELSE LET k == (x2 - 1) \div 2 IN IF k % 2 = 0 THEN k ELSE k + 1

\* An uploaded record that ended at noon of 1 July of year y.
Row(a, t, al, ms, y) == Record(a, t, al, ms, At(Jan1(y) + 181, 12))

\* ------------------------------------------------------------------ inputs
ArtistA == "Artist A"
ArtistB == "Artist B"
Track1 == "Track 1"
Track2 == "Track 2"
AlbumX == "Album X"
Absent == "Absent"

\* Normalization: plays at, below and above the thresholds.
NormMs == {10000, 50000, 300000, 400000}
NormEvents ==
    {Row(ArtistA, Track1, AlbumX, ms, 2023) : ms \in NormMs}
    \cup {Row(ArtistB, Track2, AlbumX, ms, 2023) : ms \in NormMs}
NormMinMs == {DefaultMinMsPlayed, 50000}
NormMinMinutes == {DefaultMinMinutesPlayedArtist, 1}

\* Ranking and leaderboards: two artists, two tracks, rows with and without
\* an album, three durations (all above the default thresholds).
RankMs == {400000, 500000, 900000}
RankEvents ==
    {Row(a, t, al, ms, 2023) :
        a \in {ArtistA, ArtistB}, t \in {Track1, Track2}, al \in {AlbumX, NaN},
        ms \in RankMs}
TopNs == {0, 2, 5, 50}
\* The year of the events and a year without events.
RankYears == {2022, 2023}

\* Heatmaps: a Wednesday of ISO week 10 of 2020 (a year of 53 ISO weeks that
\* starts on a Wednesday), a day of its week 53, the last day of 2023 (a
\* Sunday, early and late in the day) and a day of March 2023.
Mar4_2020 == Jan1(2020) + 63
Dec30_2020 == Jan1(2020) + 364
Mar15_2023 == Jan1(2023) + 73
Dec31_2023 == Jan1(2023) + 364
HeatEvents ==
    {Record(ArtistA, Track1, AlbumX, ms, At(Mar4_2020, 7)) : ms \in {60000, 300000, 3600000}}
    \cup {Record(ArtistA, Track1, AlbumX, 400000, ts) :
             ts \in {At(Dec30_2020, 7), At(Mar15_2023, 10),
                     At(Dec31_2023, 7), At(Dec31_2023, 23)}}
HeatYears == {2020, 2021, 2023, 2024}
\* Totals of a day, among them the edges of the buckets and a total of more
\* than 86400 minutes.
CutInputs ==
    {[min |-> q, ms |-> r] : q \in {0, 1, 5, 15, 60, 1440, 86400}, r \in {0, 1}}

\* Empty tables and slices: plays that the filters remove (alone or all),
\* an artist with events in one year only, a second artist in another year.
EmptyEvents ==
    {Row(ArtistA, Track1, AlbumX, ms, 2023) : ms \in {10000, 200000, 400000}}
    \cup {Row(ArtistB, Track2, AlbumX, 400000, 2022),
          Row(ArtistB, Track2, NaN, 50000, 2023)}
EmptyArtists == {ArtistA, ArtistB, AllArtists, Absent}

\* Uploads: two files that parse and one that does not.
FileA == File("a.json", TRUE, SetToBag({Row(ArtistA, Track1, AlbumX, 400000, 2023)}))
FileB == File("b.json", TRUE, SetToBag({Row(ArtistB, Track2, AlbumX, 900000, 2022)}))
FileBad == File("bad.json", FALSE, EmptyBag)
Files == {FileA, FileB, FileBad}

\* Yearly ranks and the sentinel: artists named like the sentinel strings,
\* two years.
YearlyArtists == {ArtistA, ArtistB, AllArtists, AllEntities}
Years == {2022, 2023}
YearlyEvents ==
    {Row(a, Track1, AlbumX, ms, y) :
        a \in YearlyArtists, ms \in {400000, 800000}, y \in Years}

\* Page flow: three artists, one of them named like the selector's first
\* entry, two years, a play below and a play above the artist threshold.
PageArtists == {ArtistA, ArtistB, AllArtists}
PageEvents ==
    {Row(a, Track1, AlbumX, ms, y) :
        a \in PageArtists, ms \in {200000, 400000}, y \in Years}

\* ----------------------------------------------------------------- actions
Init ==
    /\ listening_history = EmptyBag
    /\ all_data = EmptyBag
    /\ loaded = FALSE
    /\ min_ms_played = DefaultMinMsPlayed
    /\ min_minutes_played_artist = DefaultMinMinutesPlayedArtist
    /\ out = [op |-> "none"]
    /\ history_files = <<>>
    /\ cache = <<>>
    /\ page = "running"
    /\ ran_body = FALSE
    /\ files_read = <<>>
    /\ since_clear = <<>>

\* One more record of the uploaded files is parsed and appended.
ReadRecord(e) ==
    /\ ~loaded
    /\ BagCardinality(listening_history) < MaxEvents
    /\ listening_history' = listening_history (+) SetToBag({e})
    /\ UNCHANGED <<all_data, loaded, min_ms_played, min_minutes_played_artist, out,
                   upload_vars>>

Load(minMs, minMinutes) ==
    /\ ~loaded
    /\ listening_history # EmptyBag
    /\ all_data' = load_and_process_data(listening_history, minMs, minMinutes)
    /\ loaded' = TRUE
    /\ min_ms_played' = minMs
    /\ min_minutes_played_artist' = minMinutes
    /\ UNCHANGED <<listening_history, out, upload_vars>>

\* A lookup runs on a loaded table, once per page run.
CanQuery == loaded /\ out.op = "none"

\* The run's output is q.
Query(q) ==
    /\ out' = q
    /\ UNCHANGED <<listening_history, all_data, loaded, min_ms_played,
                   min_minutes_played_artist, upload_vars>>

GetArtistRank(artist) ==
    /\ CanQuery
    /\ \E r \in get_artist_rank(all_data, artist) :
        Query([op |-> "get_artist_rank", artist |-> artist, result |-> r])

GetYearlyArtistRank(artist, year) ==
    /\ CanQuery
    /\ \E r \in get_yearly_artist_rank(all_data, artist, year) :
        Query([op |-> "get_yearly_artist_rank", artist |-> artist, year |-> year,
               result |-> r])

GetAlbumRank(artist, album) ==
    /\ CanQuery
    /\ \E r \in get_album_rank(all_data, artist, album) :
        Query([op |-> "get_album_rank", artist |-> artist, album |-> album,
               result |-> r])

GetYearlyAlbumRank(artist, album, year) ==
    /\ CanQuery
    /\ \E r \in get_yearly_album_rank(all_data, artist, album, year) :
        Query([op |-> "get_yearly_album_rank", artist |-> artist, album |-> album,
               year |-> year, result |-> r])

GetTrackRank(artist, track) ==
    /\ CanQuery
    /\ \E r \in get_track_rank(all_data, artist, track) :
        Query([op |-> "get_track_rank", artist |-> artist, track |-> track,
               result |-> r])

AggregateArtistMinutes ==
    /\ CanQuery
    /\ \E m \in aggregate_artist_minutes(all_data) :
        Query([op |-> "aggregate_artist_minutes", result |-> m])

AggregateAlbumMinutes ==
    /\ CanQuery
    /\ \E m \in aggregate_album_minutes(all_data) :
        Query([op |-> "aggregate_album_minutes", result |-> m])

AggregateTrackMinutes ==
    /\ CanQuery
    /\ \E m \in aggregate_track_minutes(all_data) :
        Query([op |-> "aggregate_track_minutes", result |-> m])

ComputeTopArtists ==
    /\ CanQuery
    /\ \E r \in compute_top_artists(all_data) :
        Query([op |-> "compute_top_artists", result |-> r])

ComputeTopAlbums ==
    /\ CanQuery
    /\ \E r \in compute_top_albums(all_data) :
        Query([op |-> "compute_top_albums", result |-> r])

ComputeTopSongs(top_n) ==
    /\ CanQuery
    /\ \E r \in compute_top_songs(all_data, top_n) :
        Query([op |-> "compute_top_songs", result |-> r])

GetTrackOrder(top_n) ==
    /\ CanQuery
    /\ \E r \in get_track_order(all_data, top_n) :
        Query([op |-> "get_track_order", top_n |-> top_n, result |-> r])

GetArtistOrder ==
    /\ CanQuery
    /\ \E r \in get_artist_order(all_data) :
        Query([op |-> "get_artist_order", result |-> r])

GetAlbumOrder ==
    /\ CanQuery
    /\ \E r \in get_album_order(all_data) :
        Query([op |-> "get_album_order", result |-> r])

\* The stats of the selected artist: of the rows get_artist_data returns.
ComputeArtistStats(artist) ==
    /\ CanQuery
    /\ Query([op |-> "compute_artist_stats", artist |-> artist,
              result |-> compute_artist_stats(get_artist_data(all_data, artist))])

ComputeYearlyArtistStats(artist, year) ==
    /\ CanQuery
    /\ Query([op |-> "compute_yearly_artist_stats", artist |-> artist, year |-> year,
              result |-> compute_yearly_artist_stats(all_data, artist, year)])

\* The lifetime top albums of the selected artist.
ComputeLifetimeTopAlbums(artist) ==
    /\ CanQuery
    /\ \E r \in compute_lifetime_top_albums(get_artist_data(all_data, artist)) :
        Query([op |-> "compute_lifetime_top_albums", artist |-> artist, result |-> r])

ComputeYearlyAlbumLeaderboard(artist, year) ==
    /\ CanQuery
    /\ \E r \in compute_yearly_album_leaderboard(
                    YearDf(get_artist_data(all_data, artist), year)) :
        Query([op |-> "compute_yearly_album_leaderboard", artist |-> artist,
               year |-> year, result |-> r])

\* The leaderboards of the selected year: the functions get the rows of
\* that year (heatmap_data_yearly).
ComputeYearlyTrackLeaderboard(year) ==
    /\ CanQuery
    /\ \E r \in compute_yearly_track_leaderboard(YearDf(all_data, year)) :
        Query([op |-> "compute_yearly_track_leaderboard", year |-> year, result |-> r])

TrackLeaderboardYearly(year) ==
    /\ CanQuery
    /\ \E r \in track_leaderboard_yearly(YearDf(all_data, year)) :
        Query([op |-> "track_leaderboard_yearly", year |-> year, result |-> r])

\* ---- the page's upload, load and clear (main.py 117-137, 61-64) ----
\* The user adds a file to the uploader; the page starts a new run.
NewRun ==
    /\ loaded' = FALSE
    /\ page' = "running"
    /\ all_data' = EmptyBag
    /\ out' = [op |-> "none"]
    /\ ran_body' = FALSE
    /\ files_read' = <<>>
    /\ UNCHANGED <<listening_history, min_ms_played, min_minutes_played_artist>>

Upload(f) ==
    /\ \A i \in DOMAIN history_files : history_files[i] # f
    /\ history_files' = Append(history_files, f)
    /\ NewRun
    /\ UNCHANGED <<cache, since_clear>>

\* The user removes the i-th file from the uploader.
Remove(i) ==
    /\ i \in DOMAIN history_files
    /\ history_files' = [j \in 1..(Len(history_files) - 1) |->
                            IF j < i THEN history_files[j] ELSE history_files[j + 1]]
    /\ NewRun
    /\ UNCHANGED <<cache, since_clear>>

\* Any other interaction: the page runs again with the same files.
RerunPage ==
    /\ loaded \/ page # "running"
    /\ NewRun
    /\ UNCHANGED <<history_files, cache, since_clear>>

\* main.py 124-137: without files st.info and st.stop(); with files the
\* cached call of load_and_process_data.  A call with arguments the cache
\* holds returns the cached table and the body does not run.  Else the body
\* runs: it reads the files in order; a file that fails is reported and
\* st.stop() ends the run, nothing returned, nothing cached; when all files
\* are read their records are concatenated, normalized, cached and returned.
RunLoad ==
    /\ ~loaded
    /\ page = "running"
    /\ UNCHANGED <<history_files, min_ms_played, min_minutes_played_artist, out>>
    /\ IF history_files = <<>>
       THEN /\ page' = "stopped: info"
            /\ UNCHANGED <<listening_history, all_data, loaded, cache, ran_body,
                           files_read, since_clear>>
       ELSE IF history_files \in DOMAIN cache
       THEN /\ all_data' = cache[history_files]
            /\ loaded' = TRUE
            /\ UNCHANGED <<listening_history, cache, page, ran_body, files_read,
                           since_clear>>
       ELSE /\ ran_body' = TRUE
            /\ files_read' = Names(FilesRead(history_files))
            /\ LET concatenated == FilesConcatenated(history_files)
               IN  IF concatenated = None
                   THEN /\ page' = "stopped: error"
                        /\ UNCHANGED <<listening_history, all_data, loaded, cache,
                                       since_clear>>
                   ELSE LET table == load_and_process_data(
                                         Concat(concatenated[1]),
                                         DefaultMinMsPlayed,
                                         DefaultMinMinutesPlayedArtist)
                        IN  /\ listening_history' = Concat(concatenated[1])
                            /\ all_data' = table
                            /\ loaded' = TRUE
                            /\ cache' = (history_files :> table) @@ cache
                            /\ since_clear' = (history_files :> table) @@ since_clear
                            /\ UNCHANGED page

\* clear_data, the on_click of the "Clear data" button (rendered after a
\* load that returned): the cache is cleared, the session's entry of the
\* uploader deleted, and the page runs again.
ClearData ==
    /\ loaded
    /\ cache' = CacheCleared(cache)
    /\ history_files' = <<>>
    /\ since_clear' = <<>>
    /\ NewRun

\* The heatmap of the selected year is built from the rows of that year.
BuildHeatmap(year) ==
    /\ CanQuery
    /\ Query([op |-> "build_heatmap", year |-> year,
              result |-> build_heatmap(YearDf(all_data, year))])

\* The bucket of a day's total of x minutes.
MinBucket(x) ==
    /\ CanQuery
    /\ Query([op |-> "min_bucket", minutesPlayed |-> x, result |-> min_bucket(x)])

ComputeLifetimeTopTracks ==
    /\ CanQuery
    /\ \E r \in compute_lifetime_top_tracks(all_data) :
        Query([op |-> "compute_lifetime_top_tracks", result |-> r])

\* One run of main's page on the loaded table: the artist selector and the
\* year selector return the user's choices among their options, and the two
\* rank metrics are computed from them.
RunPage ==
    /\ CanQuery
    /\ \E top_artists \in compute_top_artists(all_data) :
       \E heatmap_artist \in selectbox(artist_options(top_artists.order)) :
         LET artists == get_artist_data(all_data, heatmap_artist[1])
         IN  \E rank \in get_artist_rank(all_data, heatmap_artist[1]) :
             \E year_select \in selectbox(sorted_years_reversed(artists)) :
             \E yearly_rank \in yearly_rank_of(all_data, heatmap_artist[1], year_select) :
               Query([op |-> "main", heatmap_artist |-> heatmap_artist[1],
                      year_select |-> year_select, rank |-> rank,
                      yearly_rank |-> yearly_rank])

\* One run of the legacy page (spotify_history.py): the rank is the place in
\* the selector's own list, the yearly rank the formatted average rank.  On
\* an empty table the run ends at the most-listened-year lookup.
RunLegacyPage ==
    /\ CanQuery
    /\ all_data # EmptyBag
    /\ \E m \in SortedMinutes(all_data, ArtistCols) :
         LET top_artist_order_select == [i \in DOMAIN m.index |-> m.index[i][1]]
         IN  \E heatmap_artist \in selectbox(artist_options(top_artist_order_select)) :
               LET a == heatmap_artist[1]
                   all_artist_raw ==
                       IF a = AllArtists THEN all_data
                       ELSE Where(all_data, {e \in DOMAIN all_data : e.artistName = a})
               IN  \E year_select \in selectbox(sorted_years_reversed(all_artist_raw)) :
                     Query([op |-> "spotify_history", heatmap_artist |-> a,
                            year_select |-> year_select,
                            rank |-> IF a = AllArtists THEN None
                                     ELSE Some(GetLoc(top_artist_order_select, a) + 1),
                            yearly_rank |->
                                IF a = AllArtists THEN None
                                ELSE Some(format_0f(
                                        yearly_rank_x2(all_data, a, year_select[1])))])

\* The page is run again on the same table: the previous output is gone.
Rerun ==
    /\ loaded
    /\ out.op # "none"
    /\ out' = [op |-> "none"]
    /\ UNCHANGED <<listening_history, all_data, loaded, min_ms_played,
                   min_minutes_played_artist, upload_vars>>

\* ---------------------------------------------------------- specifications
NextNorm ==
    \/ \E e \in NormEvents : ReadRecord(e)
    \/ \E minMs \in NormMinMs, minMinutes \in NormMinMinutes : Load(minMs, minMinutes)
    \/ \E a \in {ArtistA, ArtistB} : GetArtistRank(a)
    \/ AggregateArtistMinutes
    \/ Rerun

SpecNorm == Init /\ [][NextNorm]_vars

NextRank ==
    \/ \E e \in RankEvents : ReadRecord(e)
    \/ Load(DefaultMinMsPlayed, DefaultMinMinutesPlayedArtist)
    \/ \E a \in {ArtistA, ArtistB, Absent} : GetArtistRank(a)
    \/ \E a \in {ArtistA, ArtistB, Absent}, al \in {AlbumX, Absent} : GetAlbumRank(a, al)
    \/ \E a \in {ArtistA, ArtistB, Absent}, t \in {Track1, Track2, Absent} :
          GetTrackRank(a, t)
    \/ AggregateArtistMinutes
    \/ AggregateAlbumMinutes
    \/ AggregateTrackMinutes
    \/ ComputeTopArtists
    \/ ComputeTopAlbums
    \/ \E n \in TopNs : ComputeTopSongs(n)
    \/ \E n \in {None} \cup {Some(n) : n \in TopNs} : GetTrackOrder(n)
    \/ \E y \in RankYears : ComputeYearlyTrackLeaderboard(y)
    \/ \E y \in RankYears : TrackLeaderboardYearly(y)
    \/ GetAlbumOrder
    \/ \E a \in {AllArtists, ArtistA} : ComputeLifetimeTopAlbums(a)
    \/ \E a \in {AllArtists, ArtistA}, y \in RankYears : ComputeYearlyAlbumLeaderboard(a, y)
    \/ ComputeLifetimeTopTracks
    \/ Rerun

SpecRank == Init /\ [][NextRank]_vars

NextYearly ==
    \/ \E e \in YearlyEvents : ReadRecord(e)
    \/ Load(DefaultMinMsPlayed, DefaultMinMinutesPlayedArtist)
    \/ \E a \in YearlyArtists \cup {Absent} : GetArtistRank(a)
    \/ \E a \in YearlyArtists \cup {Absent}, y \in Years : GetYearlyArtistRank(a, y)
    \/ \E a \in YearlyArtists : GetAlbumRank(a, AlbumX)
    \/ \E a \in YearlyArtists, y \in Years : GetYearlyAlbumRank(a, AlbumX, y)
    \/ Rerun

SpecYearly == Init /\ [][NextYearly]_vars

NextEmpty ==
    \/ \E e \in EmptyEvents : ReadRecord(e)
    \/ Load(DefaultMinMsPlayed, DefaultMinMinutesPlayedArtist)
    \/ AggregateArtistMinutes
    \/ AggregateAlbumMinutes
    \/ AggregateTrackMinutes
    \/ GetArtistOrder
    \/ GetAlbumOrder
    \/ \E n \in {None, Some(2)} : GetTrackOrder(n)
    \/ ComputeTopArtists
    \/ ComputeTopAlbums
    \/ ComputeTopSongs(50)
    \/ \E y \in Years : ComputeYearlyTrackLeaderboard(y)
    \/ \E a \in EmptyArtists, y \in Years : ComputeYearlyAlbumLeaderboard(a, y)
    \/ \E a \in EmptyArtists : ComputeArtistStats(a)
    \/ \E a \in EmptyArtists, y \in Years : ComputeYearlyArtistStats(a, y)
    \/ \E a \in EmptyArtists : GetArtistRank(a)
    \/ \E a \in EmptyArtists, y \in Years : GetYearlyArtistRank(a, y)
    \/ \E a \in EmptyArtists : GetAlbumRank(a, AlbumX)
    \/ \E a \in EmptyArtists, y \in Years : GetYearlyAlbumRank(a, AlbumX, y)
    \/ \E a \in EmptyArtists : GetTrackRank(a, Track1)
    \/ Rerun

SpecEmpty == Init /\ [][NextEmpty]_vars

NextUpload ==
    \/ \E f \in Files : Upload(f)
    \/ \E i \in 1..Cardinality(Files) : Remove(i)
    \/ RunLoad
    \/ ClearData
    \/ RerunPage
    \/ AggregateArtistMinutes
    \/ \E a \in {ArtistA, ArtistB} : GetArtistRank(a)

SpecUpload == Init /\ [][NextUpload]_vars

NextHeatmap ==
    \/ \E e \in HeatEvents : ReadRecord(e)
    \/ Load(DefaultMinMsPlayed, DefaultMinMinutesPlayedArtist)
    \/ \E y \in HeatYears : BuildHeatmap(y)
    \/ \E x \in CutInputs : MinBucket(x)
    \/ Rerun

SpecHeatmap == Init /\ [][NextHeatmap]_vars

NextPage ==
    \/ \E e \in PageEvents : ReadRecord(e)
    \/ Load(DefaultMinMsPlayed, DefaultMinMinutesPlayedArtist)
    \/ RunPage
    \/ RunLegacyPage
    \/ Rerun

SpecPage == Init /\ [][NextPage]_vars

\* ------------------------------------------------------------------ claims
\* What the claims speak of, computed from the rows of the loaded table.
RankOps == {"get_artist_rank", "get_album_rank", "get_track_rank"}
YearlyRankOps == {"get_yearly_artist_rank", "get_yearly_album_rank"}

\* The entity key a rank lookup asked for.
AskedKey ==
    CASE out.op \in {"get_artist_rank", "get_yearly_artist_rank"} -> <<out.artist>>
      [] out.op \in {"get_album_rank", "get_yearly_album_rank"} -> <<out.artist, out.album>>
      [] out.op = "get_track_rank" -> <<out.artist, out.track>>

\* The key of row e for the kind of entity the lookup is about.
AskedKeyOf(e) ==
    CASE out.op \in {"get_artist_rank", "get_yearly_artist_rank"} -> <<e.artistName>>
      [] out.op \in {"get_album_rank", "get_yearly_album_rank"} -> <<e.artistName, e.albumName>>
      [] out.op = "get_track_rank" -> <<e.artistName, e.trackName>>

\* The rows the lookup ranks over: all rows, or those of the asked year; rows
\* with a missing key column take no part.
Ranked ==
    {e \in DOMAIN all_data :
        /\ \A i \in DOMAIN AskedKeyOf(e) : AskedKeyOf(e)[i] # NaN
        /\ out.op \in YearlyRankOps => e.year = out.year}

Entities == {AskedKeyOf(e) : e \in Ranked}

\* Total minutes (in ms) of every ranked entity.
EntityMs == [k \in Entities |-> MsOver(all_data, {e \in Ranked : AskedKeyOf(e) = k})]

NoTies(ms) == \A k1, k2 \in DOMAIN ms : k1 # k2 => ms[k1] # ms[k2]

\* r is a place the entity k can take in an order descending in total
\* minutes ms: after every entity with more, before every entity with less.
PlaceOf(ms, k, r) ==
    /\ r >= 1 + Cardinality({x \in DOMAIN ms : ms[x] > ms[k]})
    /\ r <= Cardinality({x \in DOMAIN ms : ms[x] >= ms[k]})

\* C1 (as stated): the rank lookup is None for both "All Artists" and
\* "All Entities", whatever the table holds.
C1_BothSentinelsNone ==
    (out.op \in {"get_artist_rank", "get_yearly_artist_rank"}
        /\ out.artist \in {AllArtists, AllEntities})
    => out.result = None

\* C1 (amended): the rank lookup is None for "All Artists" on every table,
\* also one with an artist of that name; "All Entities" is looked up like any
\* artist name: None exactly when no ranked row carries it, else its place.
C1_AllArtistsNone ==
    out.op \in {"get_artist_rank", "get_yearly_artist_rank"} =>
        /\ out.artist = AllArtists => out.result = None
        /\ out.artist = AllEntities =>
              IF AskedKey \in Entities
              THEN out.result # None /\ PlaceOf(EntityMs, AskedKey, out.result[1])
              ELSE out.result = None

C1_Witness ==
    /\ out.op = "get_yearly_artist_rank"
    /\ out.artist = AllArtists
    /\ <<AllArtists>> \in Entities
    /\ <<ArtistA>> \in Entities
    /\ out.result = None

\* C2: for an entity present in the aggregate, the rank lookup returns
\* 1 + its position in the total-minutes-descending order, a value in 1..K
\* (K distinct entities); without ties the ranks of the entities are exactly
\* 1..K, each once.
C2_RankIsPlace ==
    out.op \in RankOps =>
        LET ms == EntityMs
            K == Cardinality(DOMAIN ms)
            rank(k) ==
                CASE out.op = "get_artist_rank" -> get_artist_rank(all_data, k[1])
                  [] out.op = "get_album_rank" -> get_album_rank(all_data, k[1], k[2])
                  [] out.op = "get_track_rank" -> get_track_rank(all_data, k[1], k[2])
        IN  AskedKey \in DOMAIN ms =>
                /\ out.result # None
                /\ out.result[1] \in 1..K
                /\ PlaceOf(ms, AskedKey, out.result[1])
                /\ NoTies(ms) =>
                      /\ out.result[1] =
                            1 + Cardinality({x \in DOMAIN ms : ms[x] > ms[AskedKey]})
                      /\ \A k \in DOMAIN ms : \E r \in 1..K : rank(k) = {Some(r)}
                      /\ \A k1, k2 \in DOMAIN ms : k1 # k2 => rank(k1) # rank(k2)
                      /\ UNION {rank(k) : k \in DOMAIN ms} = {Some(r) : r \in 1..K}

C2_Witness ==
    /\ out.op = "get_track_rank"
    /\ Cardinality(Entities) = 3
    /\ NoTies(EntityMs)
    /\ out.result = Some(3)

\* C3: the rank lookup returns None when no event of the table has the asked
\* artist, (artist, album) pair or (artist, track) pair.
C3_AbsentIsNone ==
    (out.op \in RankOps /\ AskedKey \notin {AskedKeyOf(e) : e \in DOMAIN all_data})
    => out.result = None

\* The artist has events and the album title occurs, but never together.
C3_Witness ==
    /\ out.op = "get_album_rank"
    /\ out.result = None
    /\ ~\E e \in DOMAIN all_data : e.artistName = out.artist /\ e.albumName = out.album
    /\ \E e \in DOMAIN all_data : e.artistName = out.artist
    /\ \E e \in DOMAIN all_data : e.albumName = out.album

\* C4: the yearly rank is the rank over the events of that year alone: None
\* for "All Artists" and for an entity with no event in the year (whatever its
\* lifetime rank), else the entity's place among that year's totals.
C4_YearlyRankIsRankOfYear ==
    out.op \in YearlyRankOps =>
        IF (out.op = "get_yearly_artist_rank" /\ out.artist = AllArtists)
              \/ AskedKey \notin Entities
        THEN out.result = None
        ELSE /\ out.result # None
             /\ PlaceOf(EntityMs, AskedKey, out.result[1])

\* A yearly rank of None for an artist that has a lifetime rank.
C4_Witness ==
    /\ out.op = "get_yearly_artist_rank"
    /\ out.artist = ArtistA
    /\ out.result = None
    /\ get_artist_rank(all_data, ArtistA) = {Some(2)}

\* ---- normalization (C5-C7), from the rows of the uploaded history ----
\* The uploaded columns of a record or of a row of the table.
Uploaded(e) ==
    [artistName |-> e.artistName, trackName |-> e.trackName,
     albumName |-> e.albumName, msPlayed |-> e.msPlayed]

\* The rows of the table that come from the records S, with their counts.
KeptAs(kept, S) ==
    /\ {Uploaded(r) : r \in kept} = {Uploaded(e) : e \in S}
    /\ \A r \in kept, e \in S :
          Uploaded(r) = Uploaded(e) => all_data[r] = listening_history[e]

HistoryArtists == {e.artistName : e \in DOMAIN listening_history}

\* The rows of artist a that pass the per-event filter.
Survivors(a) ==
    {e \in DOMAIN listening_history : e.artistName = a /\ e.msPlayed > min_ms_played}

ArtistThresholdMs == min_minutes_played_artist * MsPerMinute

\* The spec's example: Artist A twice 400000 ms, Artist B once 50000 ms.
ExampleHistory ==
    (Row(ArtistA, Track1, AlbumX, 400000, 2023) :> 2)
        @@ (Row(ArtistB, Track2, AlbumX, 50000, 2023) :> 1)

\* C5: after normalization every artist of the table has a total of
\* minutesPlayed above the artist threshold, and an artist is kept with all
\* of its events that passed the per-event filter or removed with all of
\* them; on the example only Artist A remains, with rank 1.
C5_ArtistsAboveThresholdWhole ==
    loaded =>
        /\ \A a \in {e.artistName : e \in DOMAIN all_data} :
              MsOver(all_data, {e \in DOMAIN all_data : e.artistName = a})
                  > ArtistThresholdMs
        /\ \A a \in HistoryArtists :
              LET kept == {e \in DOMAIN all_data : e.artistName = a}
              IN  \/ kept = {}
                  \/ KeptAs(kept, Survivors(a))
        /\ (listening_history = ExampleHistory
                /\ min_ms_played = DefaultMinMsPlayed
                /\ min_minutes_played_artist = DefaultMinMinutesPlayedArtist) =>
              /\ out.op = "aggregate_artist_minutes" =>
                    out.result.index = << <<ArtistA>> >>
              /\ (out.op = "get_artist_rank" /\ out.artist = ArtistA) =>
                    out.result = Some(1)
              /\ (out.op = "get_artist_rank" /\ out.artist = ArtistB) =>
                    out.result = None

C5_Witness ==
    /\ listening_history = ExampleHistory
    /\ min_ms_played = DefaultMinMsPlayed
    /\ min_minutes_played_artist = DefaultMinMinutesPlayedArtist
    /\ out.op = "get_artist_rank"
    /\ out.artist = ArtistA
    /\ out.result = Some(1)
    /\ {Uploaded(r) : r \in DOMAIN all_data}
          = {Uploaded(Row(ArtistA, Track1, AlbumX, 400000, 2023))}

\* C6: the per-event filter runs first (msPlayed <= min_ms_played is dropped,
\* the floor itself included) and the per-artist total is taken over the
\* events that survived it.
C6_EventFilterThenArtistFilter ==
    loaded =>
        KeptAs(DOMAIN all_data,
               {e \in DOMAIN listening_history :
                   /\ e.msPlayed > min_ms_played
                   /\ MsOver(listening_history, Survivors(e.artistName))
                         > ArtistThresholdMs})

\* An artist whose raw total is above the threshold, with a play exactly at
\* the floor, removed entirely because its surviving plays do not reach it.
C6_Witness ==
    /\ loaded
    /\ \E a \in HistoryArtists :
          /\ MsOver(listening_history,
                    {e \in DOMAIN listening_history : e.artistName = a})
                > ArtistThresholdMs
          /\ \E e \in DOMAIN listening_history :
                e.artistName = a /\ e.msPlayed = min_ms_played
          /\ Survivors(a) # {}
          /\ ~\E e \in DOMAIN all_data : e.artistName = a

\* C7: the filter pair applied to its own result changes nothing.
C7_FiltersIdempotent ==
    loaded =>
        ApplyFilters(all_data, min_ms_played, min_minutes_played_artist) = all_data

\* The first application removed rows and kept others.
C7_Witness ==
    /\ loaded
    /\ all_data # EmptyBag
    /\ BagCardinality(all_data) < BagCardinality(listening_history)
    /\ ApplyFilters(all_data, min_ms_played, min_minutes_played_artist) = all_data

\* ---- aggregates and leaderboards (C8-C10) ----
AggregateOps ==
    {"aggregate_artist_minutes", "aggregate_album_minutes", "aggregate_track_minutes"}

\* C8 (as stated): the values of each minutes aggregate add up to the
\* minutesPlayed of all events of the table, also when events have no album.
C8_AggregateConservesMinutes ==
    (out.op \in AggregateOps /\ all_data # EmptyBag)
    => SeqSum(out.result.values) = TotalMs(all_data)

\* C9 (as stated): the rank column of each leaderboard table holds exactly
\* 1..K, each once, K the number of rows of that table.  (The rank column of
\* compute_top_artists is held doubled.)
C9_RanksDense ==
    /\ out.op \in {"compute_top_albums", "compute_top_songs"} =>
          /\ \A i \in DOMAIN out.result.df : out.result.df[i].rank = i
          /\ {out.result.df[i].rank : i \in DOMAIN out.result.df}
                = 1..Len(out.result.df)
    /\ out.op = "compute_top_artists" =>
          /\ \A r \in DOMAIN out.result.df : out.result.df[r] = 1
          /\ {r.rank_x2 : r \in DOMAIN out.result.df}
                = {2 * i : i \in 1..BagCardinality(out.result.df)}

\* Listens of an (artist, track) entity, counted on the rows of the table.
ListensOf(artist, track) ==
    CountOver(all_data,
              {e \in DOMAIN all_data : e.artistName = artist /\ e.trackName = track})

MinutesOf(artist, track) ==
    MsOver(all_data,
           {e \in DOMAIN all_data : e.artistName = artist /\ e.trackName = track})

TrackEntities == {<<e.artistName, e.trackName>> : e \in DOMAIN all_data}

\* C10: the top-songs view and the per-artist lifetime top tracks hold one
\* row per (artist, track), ordered by listen count descending whatever the
\* minutes: of two entities with different listen counts the one with more
\* listens comes first.
C10_SongsByListens ==
    /\ out.op = "compute_top_songs" =>
          LET d == out.result.df
          IN  /\ {<<d[i].artistName, d[i].trackName>> : i \in DOMAIN d} = TrackEntities
              /\ Len(d) = Cardinality(TrackEntities)
              /\ \A i \in DOMAIN d : d[i].Listens = ListensOf(d[i].artistName, d[i].trackName)
              /\ \A i, j \in DOMAIN d :
                    ListensOf(d[i].artistName, d[i].trackName)
                        > ListensOf(d[j].artistName, d[j].trackName)
                    => i < j /\ d[i].rank < d[j].rank
    /\ out.op = "compute_lifetime_top_tracks" =>
          LET d == out.result
          IN  /\ Len(d) = Cardinality(TrackEntities)
              /\ \A k \in TrackEntities : \E i \in DOMAIN d :
                    /\ d[i].trackName = k[2]
                    /\ d[i].Listens = ListensOf(k[1], k[2])
                    /\ d[i].Total_Minutes = MinutesOf(k[1], k[2])
              /\ \A i, j \in DOMAIN d : d[i].Listens > d[j].Listens => i < j

\* The track with two listens is ranked before a track with a single listen
\* and more minutes.
C10_Witness ==
    /\ out.op = "compute_top_songs"
    /\ Len(out.result.df) = 2
    /\ out.result.df[1].Listens = 2
    /\ out.result.df[2].Listens = 1
    /\ MinutesOf(out.result.df[1].artistName, out.result.df[1].trackName)
          < MinutesOf(out.result.df[2].artistName, out.result.df[2].trackName)

\* ---- display order and leaderboard order (C11, C12) ----
\* C11: compute_top_songs returns the full ranked table, one row per
\* (artist, track) entity with ranks 1..K, and a display-order list of exactly
\* min(top_n, K) track names, the first rows' names in order; with top_n > K
\* the list has K names, nothing padded.  get_track_order(df, top_n) returns
\* the first min(top_n, K) track names of its minutes aggregate of K entities.
C11_TopNPrefix ==
    LET K == Cardinality(TrackEntities)
    IN  /\ out.op = "compute_top_songs" =>
              LET d == out.result.df
                  order == out.result.order
              IN  /\ Len(d) = K
                  /\ \A i \in 1..K : d[i].rank = i
                  /\ Len(order) = Min(out.result.top_n, K)
                  /\ \A i \in DOMAIN order : order[i] = d[i].trackName
        /\ (out.op = "get_track_order" /\ out.top_n # None) =>
              LET index == out.result.minutes.index
                  order == out.result.order
              IN  /\ Len(index) = K
                  /\ {index[i] : i \in DOMAIN index} = TrackEntities
                  /\ Len(order) = Min(out.top_n[1], K)
                  /\ \A i \in DOMAIN order : order[i] = index[i][2]

\* top_n = 5 asked of three entities: three rows, ranks 1, 2, 3, three names.
C11_Witness ==
    /\ out.op = "compute_top_songs"
    /\ out.result.top_n = 5
    /\ Cardinality(TrackEntities) = 3
    /\ [i \in DOMAIN out.result.df |-> out.result.df[i].rank] = <<1, 2, 3>>
    /\ Len(out.result.order) = 3

\* C12 (as stated): in the yearly track leaderboard of both entry points, of
\* two adjacent rows the first has more total minutes, or the same total
\* minutes and at least as many listens.
C12_LeaderboardByMinutesThenListens ==
    out.op \in {"compute_yearly_track_leaderboard", "track_leaderboard_yearly"} =>
        LET d == out.result
        IN  \A i \in DOMAIN d : i + 1 \in DOMAIN d =>
                \/ d[i].Total_Minutes > d[i + 1].Total_Minutes
                \/ /\ d[i].Total_Minutes = d[i + 1].Total_Minutes
                   /\ d[i].Listens >= d[i + 1].Listens

\* The same order, for compute_yearly_track_leaderboard alone.
C12_FunctionOrder ==
    out.op = "compute_yearly_track_leaderboard" => C12_LeaderboardByMinutesThenListens

\* ---- heatmap (C13-C15) ----
\* The number of ISO weeks of year y: the ISO week of 28 December.
IsoWeeksOf(y) == IsoCalendar(Jan1(y + 1) - 4).week

DayNames == {day_name[i] : i \in DOMAIN day_name}

\* The rows of the selected year that fall in the cell c.
SourceEvents(c) ==
    {e \in DOMAIN all_data :
        /\ e.year = out.year
        /\ e.week = c.week
        /\ day_name[e.dow + 1] = c.day_of_week_str}

\* C13 (as stated): the heatmap of a year has exactly one cell per (ISO week,
\* day of week) of the year's grid, weeks 1..52 or 1..53 as the ISO year has,
\* 52*7 or 53*7 cells, no (week, day) pair twice, also when the table has no
\* event in the year.
C13_GridComplete ==
    out.op = "build_heatmap" =>
        LET weeks == 1..IsoWeeksOf(out.year)
        IN  /\ {<<c.week, c.day_of_week_str>> : c \in out.result} = weeks \X DayNames
            /\ Cardinality(out.result) = Cardinality(weeks) * 7

\* The bucket the claim gives to a total of m minutes.
ClaimedBucket(m) ==
    IF MinutesLeq(m, 1) THEN "0 min"
    ELSE IF MinutesLeq(m, 5) THEN "1-5 min"
    ELSE IF MinutesLeq(m, 15) THEN "5-15 min"
    ELSE IF MinutesLeq(m, 60) THEN "15-60 min"
    ELSE "60+ min"

\* C14 (as stated): every cell has the bucket of its total minutes m:
\* "0 min" for m <= 1, "1-5 min" for 1 < m <= 5, "5-15 min" for 5 < m <= 15,
\* "15-60 min" for 15 < m <= 60 and "60+ min" for every m > 60, however
\* large; no total is left without a bucket.
C14_BucketOfMinutes ==
    /\ out.op = "min_bucket" => out.result = ClaimedBucket(out.minutesPlayed)
    /\ out.op = "build_heatmap" =>
          \A c \in out.result : c.min_bucket = ClaimedBucket(Minutes(c.minutesPlayed))

\* C15 (as stated): a cell without source event has 0 minutes and the date
\* whose ISO year, ISO week and weekday are the cell's year, week and day.
C15_MissingCellDate ==
    out.op = "build_heatmap" =>
        \A c \in out.result : SourceEvents(c) = {} =>
            /\ c.minutesPlayed = 0
            /\ IsoCalendar(c.date).year = c.year
            /\ IsoCalendar(c.date).week = c.week
            /\ day_name[IsoCalendar(c.date).weekday] = c.day_of_week_str

\* ---- empty tables and slices (C16) ----
\* The functions that are given the rows of one artist, and the lookups that
\* take the rows of one year.
ArtistSliceOps ==
    {"compute_artist_stats", "compute_yearly_artist_stats",
     "compute_yearly_album_leaderboard", "compute_lifetime_top_albums"}
YearSliceOps ==
    {"compute_yearly_artist_stats", "compute_yearly_album_leaderboard",
     "compute_yearly_track_leaderboard", "get_yearly_artist_rank",
     "get_yearly_album_rank"}

\* The rows of the table the last query was made over.
QueriedRows ==
    {e \in DOMAIN all_data :
        /\ out.op \in YearSliceOps => e.year = out.year
        /\ (out.op \in ArtistSliceOps /\ out.artist # AllArtists)
              => e.artistName = out.artist}

EmptySeries == [index |-> <<>>, values |-> <<>>]

\* C16: over a table without rows, or over a year or artist without rows in
\* the table, every aggregate, order list and leaderboard is empty, the
\* stats are zero with most_listened_year None, every rank lookup is None,
\* and no call raises.
C16_EmptyIsEmpty ==
    (out.op # "none" /\ QueriedRows = {}) =>
        CASE out.op \in AggregateOps -> out.result = EmptySeries
          [] out.op \in {"get_artist_order", "get_album_order"} -> out.result = <<>>
          [] out.op = "get_track_order" ->
                out.result = [minutes |-> EmptySeries, order |-> <<>>]
          [] out.op = "compute_top_artists" ->
                out.result = [hours |-> EmptySeries, order |-> <<>>, df |-> EmptyBag]
          [] out.op = "compute_top_albums" ->
                out.result = [df |-> <<>>, order |-> <<>>]
          [] out.op = "compute_top_songs" ->
                /\ out.result.df = <<>>
                /\ out.result.order = <<>>
          [] out.op \in {"compute_yearly_track_leaderboard",
                         "compute_yearly_album_leaderboard"} -> out.result = <<>>
          [] out.op \in {"compute_artist_stats", "compute_yearly_artist_stats"} ->
                out.result = [hours |-> 0, unique_tracks |-> 0,
                              most_listened_year |-> None]
          [] out.op \in RankOps \cup YearlyRankOps -> out.result = None

\* The stats of a year in which an artist of the table has no event.
C16_Witness ==
    /\ out.op = "compute_yearly_artist_stats"
    /\ out.artist = ArtistA
    /\ \E e \in DOMAIN all_data : e.artistName = ArtistA
    /\ QueriedRows = {}
    /\ out.result.most_listened_year = None

LoadOver == loaded \/ page # "running"

\* C18: when a file of the batch cannot be read or parsed the run stops at
\* that file: the files read are those up to it, no table is returned or
\* cached for the batch, and no aggregate or rank is computed in that run.
C18_BadFileStops ==
    \A i \in DOMAIN history_files :
        (/\ LoadOver
         /\ ~history_files[i].ok
         /\ \A j \in 1..(i - 1) : history_files[j].ok) =>
            /\ page = "stopped: error"
            /\ files_read = [j \in 1..i |-> history_files[j].name]
            /\ ~loaded
            /\ all_data = EmptyBag
            /\ history_files \notin DOMAIN cache
            /\ out.op = "none"

\* The second of three files fails: two files read, the third never.
C18_Witness ==
    /\ page = "stopped: error"
    /\ Len(history_files) = 3
    /\ history_files[1].ok
    /\ ~history_files[2].ok
    /\ history_files[3].ok
    /\ files_read = <<history_files[1].name, history_files[2].name>>

\* ---- derived columns (C19) ----
\* C19 (as stated): every row of the table has the date, day of week, ISO
\* week and ISO year of the endTime of the uploaded event it comes from, no
\* offset applied: an event that ended at 23:00 of a day belongs to that day.
C19_FieldsOfEndTime ==
    loaded =>
        \A r \in DOMAIN all_data :
            \E e \in DOMAIN listening_history :
                /\ Uploaded(e) = Uploaded(r)
                /\ r.date = DateOf(e.endTime)
                /\ r.dow = Weekday(DateOf(e.endTime))
                /\ r.week = IsoCalendar(DateOf(e.endTime)).week
                /\ r.year = IsoCalendar(DateOf(e.endTime)).year

\* ---- album identity (C20) ----
\* The (artist, album) pairs of the queried rows, and the minutes of a pair's
\* own events.
AlbumPairs == {<<e.artistName, e.albumName>> : e \in {x \in QueriedRows : x.albumName # NaN}}

AlbumMs(k) ==
    MsOver(all_data, {e \in QueriedRows : e.artistName = k[1] /\ e.albumName = k[2]})

\* Two artists have events with the same album title.
SharedTitle == \E k1, k2 \in AlbumPairs : k1 # k2 /\ k1[2] = k2[2]

\* C20: an album is the pair (artistName, albumName).  Every album aggregate
\* and leaderboard has one row per pair, with the minutes of that pair's own
\* events, also when two artists share an album title; the rank lookup of a
\* pair is the place of that pair, two pairs never get the same place in one
\* aggregate, and the labels "album - artist" of two pairs differ.
C20_AlbumIsArtistAlbumPair ==
    LET K == Cardinality(AlbumPairs)
    IN  /\ out.op = "aggregate_album_minutes" =>
              LET m == out.result
              IN  /\ Len(m.index) = K
                  /\ \A k \in AlbumPairs : \E i \in DOMAIN m.index :
                        m.index[i] = k /\ m.values[i] = AlbumMs(k)
                  /\ \A k1, k2 \in AlbumPairs :
                        k1 # k2 => RankIn(m, k1) # RankIn(m, k2)
        /\ out.op = "compute_top_albums" =>
              LET d == out.result.df
              IN  /\ Len(d) = K
                  /\ \A k \in AlbumPairs : \E i \in DOMAIN d :
                        /\ d[i].artistName = k[1] /\ d[i].albumName = k[2]
                        /\ d[i].hours = AlbumMs(k)
                        /\ d[i].album_display = <<k[2], Dash, k[1]>>
                        /\ out.result.order[i] = d[i].album_display
                  /\ \A i, j \in DOMAIN d :
                        i # j => d[i].album_display # d[j].album_display
        /\ out.op = "get_album_order" =>
              /\ Len(out.result) = K
              /\ {out.result[i] : i \in DOMAIN out.result}
                    = {<<k[2], Dash, k[1]>> : k \in AlbumPairs}
        /\ out.op \in {"compute_lifetime_top_albums", "compute_yearly_album_leaderboard"} =>
              LET d == out.result
              IN  /\ Len(d) = K
                  /\ \A k \in AlbumPairs : \E i \in DOMAIN d :
                        d[i].albumName = k[2] /\ d[i].Total_Minutes = AlbumMs(k)
        /\ (out.op = "get_album_rank" /\ AskedKey \in AlbumPairs) =>
              /\ out.result # None
              /\ PlaceOf([k \in AlbumPairs |-> AlbumMs(k)], AskedKey, out.result[1])

\* Album X by Artist A and Album X by Artist B: two rows of that title with
\* different minutes in the lifetime top albums of all artists.
C20_Witness ==
    /\ out.op = "compute_lifetime_top_albums"
    /\ out.artist = AllArtists
    /\ SharedTitle
    /\ Len(out.result) = 2
    /\ out.result[1].albumName = out.result[2].albumName
    /\ out.result[1].Total_Minutes > out.result[2].Total_Minutes

\* ---- order of ties (C21) ----
\* The names of the inputs in the order of their strings, which is the order
\* groupby(sort=True) gives the group keys of one column.
Collation == <<Absent, AlbumX, ArtistA, ArtistB, Track1, Track2>>

StrLess(a, b) ==
    (CHOOSE i \in DOMAIN Collation : Collation[i] = a)
        < (CHOOSE i \in DOMAIN Collation : Collation[i] = b)

\* The key order of a grouping by several columns: tuples compare column by
\* column.
KeyLess(k1, k2) ==
    \E i \in DOMAIN k1 :
        /\ StrLess(k1[i], k2[i])
        /\ \A j \in 1..(i - 1) : k1[j] = k2[j]

MinutesOps ==
    {"aggregate_artist_minutes", "aggregate_album_minutes", "aggregate_track_minutes"}

PageOps == {"main", "spotify_history"}

\* C22: on the page, with a table loaded, an artist chosen in the artist
\* selector and a year chosen in the year selector, a chosen artist other
\* than "All Artists" has events in the loaded table and in the chosen year,
\* and both its lifetime rank and its yearly rank are integers >= 1, never
\* None.
C22_ShownRanksAreIntegers ==
    (out.op \in PageOps /\ out.heatmap_artist # AllArtists) =>
        /\ out.year_select # None
        /\ \E e \in DOMAIN all_data :
              e.artistName = out.heatmap_artist /\ e.year = out.year_select[1]
        /\ out.rank # None
        /\ out.rank[1] \in Nat /\ out.rank[1] >= 1
        /\ out.yearly_rank # None
        /\ out.yearly_rank[1] \in Nat /\ out.yearly_rank[1] >= 1

\* Artist B, second of two artists over all years, is chosen together with a
\* year in which it is the only artist: rank 2, yearly rank 1.
C22_Witness ==
    /\ out.op = "main"
    /\ out.heatmap_artist = ArtistB
    /\ out.year_select = Some(2022)
    /\ out.rank = Some(2)
    /\ out.yearly_rank = Some(1)

\* ---- conservation in the heatmap (C23) ----
\* The rows of the selected year, which are the table build_heatmap receives.
HeatmapInput == {e \in DOMAIN all_data : e.year = out.year}

\* The cells of an event's own (ISO week, day of week).
CellsOf(e) ==
    {c \in out.result :
        c.week = e.week /\ c.day_of_week_str = day_name[e.dow + 1]}

\* C23: the minutes of the heatmap's cells add up to the minutes of the
\* year's events, and every event counts in exactly one cell, that of its
\* own ISO week (week 53 included) and day of week, whose total is the sum
\* of the events of that week and day.
C23_HeatmapConservesMinutes ==
    out.op = "build_heatmap" =>
        /\ LET played == {c \in out.result : c.minutesPlayed # 0}
           IN  SumFn([c \in played |-> c.minutesPlayed], played)
                 = MsOver(all_data, HeatmapInput)
        /\ \A e \in HeatmapInput :
              /\ Cardinality(CellsOf(e)) = 1
              /\ \A c \in CellsOf(e) : c.minutesPlayed = MsOver(all_data, SourceEvents(c))

====
